---- MODULE Spec2Model ----
(***************************************************************************)
(* Model of github-standup-agent's two stateful cores:                     *)
(*   - the Slack publish/confirm protocol held in the run context          *)
(*     (tools/slack/slack_publish.py), checked under SpecPublish;          *)
(*   - the SQLite task store and the task tools built on it                *)
(*     (tools/tasks/task_store.py, tools/tasks/task_tools.py,              *)
(*     mcp_server.py), checked under SpecStore, SpecQuery, SpecLink,       *)
(*     SpecTools (whole calls, one after another) and SpecConcurrent       *)
(*     (statements of concurrent sessions interleaved).                    *)
(* Python's None is the string "None"; "" is the empty string; both are    *)
(* falsy, as in the source's `x or y` and `if not x`.                      *)
(***************************************************************************)
EXTENDS Integers, Sequences, FiniteSets, TLC

VARIABLES
    \* ---- run context and configuration of one session (publish protocol)
    slack_bot_token,          \* config.get_slack_token(): "None" or a token
    slack_channel,            \* config.slack_channel: "None", a name or an id
    current_standup,          \* ctx.context.current_standup
    slack_thread_ts,          \* ctx.context.slack_thread_ts
    slack_channel_id,         \* ctx.context.slack_channel_id
    slack_publish_confirmed,  \* ctx.context.slack_publish_confirmed
    slack_standup_to_publish, \* ctx.context.slack_standup_to_publish
    last,                     \* record of the most recent tool call of the session
    hist,                     \* history of the session (counters, what was previewed)
    \* ---- the task store (SQLite file shared by all sessions)
    tasks,                    \* table tasks: id -> row
    task_updates,             \* table task_updates, in insertion (rowid) order
    now,                      \* the clock read by _now_iso()
    store_last,               \* record of the most recent store/tool call
    store_hist,               \* history of the store (ids ever completed, ...)
    conns                     \* per concurrent session: its call in progress on its
                              \* own SQLite connection (statement reached, open
                              \* transaction)

pubvars == <<slack_bot_token, slack_channel, current_standup, slack_thread_ts,
             slack_channel_id, slack_publish_confirmed, slack_standup_to_publish,
             last, hist>>
storevars == <<tasks, task_updates, now, store_last, store_hist>>
vars == <<pubvars, storevars, conns>>

None == "None"

\* Python truthiness of an optional string: None and "" are falsy.
Truthy(x) == x # None /\ x # ""

\* Python's `a or b`.
PyOr(a, b) == IF Truthy(a) THEN a ELSE b

(***************************************************************************)
(* Publish protocol                                                        *)
(***************************************************************************)

\* Standup texts: "A" is short, "B" is longer than the preview limit.
Contents == {"A", "B"}
ContentLen(c) == CASE c = "A" -> 20 [] c = "B" -> 501 [] OTHER -> 0

\* Inputs an agent can pass as standup_text / values current_standup can take.
TextArgs == Contents \cup {None, ""}

\* Bound on the number of confirmations given in one explored session.
MaxConfirms == 2

PreviewLimit == 500

\* content[:500] + ("..." if len(content) > 500 else "")
PreviewExcerpt(c) ==
    [head_of |-> c, ellipsis |-> (ContentLen(c) > PreviewLimit)]

NoExcerpt == [head_of |-> None, ellipsis |-> FALSE]

\* resolve_channel_id: a name starting with C or G is already an id (no API call).
ChannelIds == {"C123"}
ChannelNames == {"standup"}
IsChannelId(ch) == ch \in ChannelIds

\* The Slack Web API calls a publish can make, in the order made.
ResolveCalls(ch) == IF IsChannelId(ch) THEN <<>> ELSE <<"conversations_list">>

\* Outcomes of the transport: "ok" or "err" (SlackClientError).
Outcomes == {"ok", "err"}

\* resolve_channel_id(client, channel_name)
resolve_channel_id(ch, out) ==
    IF IsChannelId(ch) THEN [ok |-> TRUE, id |-> ch]
    ELSE IF out = "ok" THEN [ok |-> TRUE, id |-> "C123"]
    ELSE [ok |-> FALSE, id |-> None]

\* Line 41: content = standup_text or ctx.context.current_standup
ResolveContentStandupFirst(standup_text) == PyOr(current_standup, standup_text)
ResolveContent(standup_text) == PyOr(standup_text, current_standup)

\* Line 55: if not confirmed and not ctx.context.slack_publish_confirmed
NeedsPreviewBroken(confirmed, flag) == ~confirmed /\ flag
NeedsPreview(confirmed, flag) == ~confirmed /\ ~flag

\* Line 71: content = ctx.context.slack_standup_to_publish or content
ContentToPostSwapped(staged, content) == PyOr(content, staged)
ContentToPost(staged, content) == PyOr(staged, content)

\* Lines 91-92: after a successful post the flag and the staged content are reset.
ConfirmedAfterPostKept(flag) == flag
ConfirmedAfterPost(flag) == FALSE
StagedAfterPost(staged) == None

\* Lines 96-97: the except branch returns the error and writes nothing.
ConfirmedAfterErrorCleared(flag) == FALSE
ConfirmedAfterError(flag) == flag
StagedAfterError(staged) == staged

\* Lines 47-52: with no thread the call returns before any client call.
ThreadMissingIgnored(thread_ts) == FALSE
ThreadMissing(thread_ts) == ~Truthy(thread_ts)

\* publish_standup_to_slack(ctx, standup_text, confirmed) as a function of the
\* session state, its arguments and the transport's outcomes: the value returned,
\* the client calls made, the text posted and the fields written.
PublishOutcome(standup_text, confirmed, resolveOut, postOut) ==
    LET content == ResolveContent(standup_text)
        same == [confirmed |-> slack_publish_confirmed,
                 staged |-> slack_standup_to_publish,
                 channel_id |-> slack_channel_id]
        early(k) == [kind |-> k, shown |-> NoExcerpt, posted_text |-> None,
                     attempt |-> None, calls |-> <<>>] @@ same
    IN  IF ~Truthy(slack_bot_token) THEN early("no_token")
        ELSE IF ~Truthy(slack_channel) THEN early("no_channel")
        ELSE IF ~Truthy(content) THEN early("no_content")
        ELSE IF ThreadMissing(slack_thread_ts) THEN early("no_thread")
        ELSE IF NeedsPreview(confirmed, slack_publish_confirmed)
        THEN [kind |-> "preview", shown |-> PreviewExcerpt(content),
              posted_text |-> None, attempt |-> None, calls |-> <<>>,
              confirmed |-> slack_publish_confirmed,
              staged |-> content,
              channel_id |-> slack_channel_id]
        ELSE
          LET toPost == ContentToPost(slack_standup_to_publish, content)
              needResolve == ~Truthy(slack_channel_id)
              res == IF needResolve THEN resolve_channel_id(slack_channel, resolveOut)
                     ELSE [ok |-> TRUE, id |-> slack_channel_id]
              rcalls == IF needResolve THEN ResolveCalls(slack_channel) ELSE <<>>
          IN  IF ~res.ok
              THEN [kind |-> "error", shown |-> NoExcerpt, posted_text |-> None,
                    attempt |-> toPost, calls |-> rcalls,
                    confirmed |-> ConfirmedAfterError(slack_publish_confirmed),
                    staged |-> StagedAfterError(slack_standup_to_publish),
                    channel_id |-> slack_channel_id]
              ELSE IF postOut = "err"
              THEN [kind |-> "error", shown |-> NoExcerpt, posted_text |-> None,
                    attempt |-> toPost,
                    calls |-> Append(rcalls, "chat_postMessage"),
                    confirmed |-> ConfirmedAfterError(slack_publish_confirmed),
                    staged |-> StagedAfterError(slack_standup_to_publish),
                    channel_id |-> res.id]
              ELSE [kind |-> "posted", shown |-> NoExcerpt, posted_text |-> toPost,
                    attempt |-> toPost,
                    calls |-> Append(rcalls, "chat_postMessage"),
                    confirmed |-> ConfirmedAfterPost(slack_publish_confirmed),
                    staged |-> StagedAfterPost(slack_standup_to_publish),
                    channel_id |-> res.id]

\* History of a session before any call.
NoHist == [confirms |-> 0,              \* confirmations given so far
           posts |-> 0,                 \* successful posts so far
           previewed |-> {},            \* contents staged by some preview so far
           lastPreview |-> None,        \* content staged by the most recent preview
           postedSincePreview |-> FALSE,\* a post succeeded after that preview
           postedNoConfirmSince |-> FALSE, \* a post succeeded, no confirm call since
           failedAttempt |-> None]      \* text of a failed confirmed attempt, no confirm call since

NoCall == [op |-> "none", text |-> None, confirmed |-> FALSE,
           pre_confirmed |-> FALSE, pre_staged |-> None, pre_thread |-> None,
           content |-> None, kind |-> "none", shown |-> NoExcerpt,
           posted_text |-> None, attempt |-> None, calls |-> <<>>,
           pre |-> NoHist]

\* publish_standup_to_slack: the whole call, with what it returns recorded in last.
publish_standup_to_slack(standup_text, confirmed, resolveOut, postOut) ==
    LET r == PublishOutcome(standup_text, confirmed, resolveOut, postOut)
        bump == IF confirmed THEN 1 ELSE 0
    IN  /\ hist.confirms + bump <= MaxConfirms
        /\ slack_publish_confirmed' = r.confirmed
        /\ slack_standup_to_publish' = r.staged
        /\ slack_channel_id' = r.channel_id
        /\ last' = [op |-> "publish", text |-> standup_text, confirmed |-> confirmed,
                    pre_confirmed |-> slack_publish_confirmed,
                    pre_staged |-> slack_standup_to_publish,
                    pre_thread |-> slack_thread_ts,
                    content |-> ResolveContent(standup_text),
                    kind |-> r.kind, shown |-> r.shown,
                    posted_text |-> r.posted_text, attempt |-> r.attempt,
                    calls |-> r.calls, pre |-> hist]
        /\ hist' = [confirms |-> hist.confirms + bump,
                    posts |-> hist.posts + (IF r.kind = "posted" THEN 1 ELSE 0),
                    previewed |-> IF r.kind = "preview"
                                  THEN hist.previewed \cup {r.staged}
                                  ELSE hist.previewed,
                    lastPreview |-> IF r.kind = "preview" THEN r.staged
                                    ELSE hist.lastPreview,
                    postedSincePreview |->
                        IF r.kind = "preview" THEN FALSE
                        ELSE IF r.kind = "posted" THEN TRUE
                        ELSE hist.postedSincePreview,
                    postedNoConfirmSince |->
                        IF r.kind = "posted" THEN TRUE
                        ELSE hist.postedNoConfirmSince,
                    failedAttempt |->
                        IF r.kind = "error" THEN r.attempt ELSE hist.failedAttempt]
        /\ UNCHANGED <<slack_bot_token, slack_channel, current_standup, slack_thread_ts>>
        /\ UNCHANGED <<storevars, conns>>

\* confirm_slack_publish
confirm_slack_publish ==
    /\ hist.confirms < MaxConfirms
    /\ slack_publish_confirmed' = TRUE
    /\ last' = [NoCall EXCEPT !.op = "confirm", !.kind = "ack",
                              !.pre_confirmed = slack_publish_confirmed,
                              !.pre_staged = slack_standup_to_publish,
                              !.pre = hist]
    /\ hist' = [hist EXCEPT !.confirms = @ + 1,
                            !.postedNoConfirmSince = FALSE,
                            !.failedAttempt = None]
    /\ UNCHANGED <<slack_bot_token, slack_channel, current_standup, slack_thread_ts,
                   slack_channel_id, slack_standup_to_publish>>
    /\ UNCHANGED <<storevars, conns>>

\* The agent runtime writes the standup being generated or refined into the context.
SetCurrentStandup(c) ==
    /\ c # current_standup
    /\ current_standup' = c
    /\ last' = NoCall
    /\ UNCHANGED <<slack_bot_token, slack_channel, slack_thread_ts, slack_channel_id,
                   slack_publish_confirmed, slack_standup_to_publish, hist>>
    /\ UNCHANGED <<storevars, conns>>

\* The data-gathering step (get_team_slack_standups) records the thread it found.
DiscoverThread ==
    /\ slack_thread_ts = None
    /\ slack_thread_ts' = "1700000000.000100"
    /\ last' = NoCall
    /\ UNCHANGED <<slack_bot_token, slack_channel, current_standup, slack_channel_id,
                   slack_publish_confirmed, slack_standup_to_publish, hist>>
    /\ UNCHANGED <<storevars, conns>>

\* A table with no rows.
EmptyTable == [i \in {} |-> None]

NoStoreCall == [op |-> "none", variant |-> "store", id |-> None, arg |-> None,
                result |-> None, events |-> << >>, telemetry |-> "none"]

\* Sessions that use the store at the same time, each call on its own connection.
Sessions == {"s1", "s2"}

\* A connection's transaction: closed, or open with the tables as the connection
\* has written them (visible to that connection only until it commits).
NoTxn == [open |-> FALSE, tasks |-> EmptyTable, updates |-> << >>]

\* What a finished call returned: a kind and, for clear_all_tasks, the count.
NoResult == [kind |-> "none", count |-> 0]

\* The tool call a session is in: the tool, its position between its store calls,
\* its arguments, the status its get_task read, the id of the update its note got
\* and how it ended ("ok", an exception, "none" while it runs). NoTool: none.
NoTool == [name |-> "none", pc |-> "done", id |-> None, note |-> None, status |-> None,
           existing |-> None, uid |-> None, result |-> "none"]

\* A session with no call in progress. column, arg and read are the column, the
\* value and the list read of a link call.
IdleConn == [op |-> "idle", pc |-> "done", id |-> None, uid |-> None, t |-> 0,
             count |-> 0, txn |-> NoTxn, result |-> NoResult,
             column |-> None, arg |-> None, read |-> << >>, tool |-> NoTool]

\* History of the store before any call.
NoStoreHist ==
    [completed_ever |-> {},     \* ids of present tasks that were ever set to completed
     first_linked |-> {},       \* <<id, column, ref, n>>: ref was the n-th distinct
                                \* reference linked to that column of present task id
     returned |-> {}]           \* ids that create_task calls have returned so far

\* The store after ensure_tasks_db() has created the two empty tables.
StoreEmpty ==
    /\ tasks = EmptyTable
    /\ task_updates = << >>
    /\ now = 0
    /\ store_last = NoStoreCall
    /\ store_hist = NoStoreHist
    /\ conns = [s \in Sessions |-> IdleConn]

\* A fresh StandupContext; the configuration is any of the possible ones.
InitPublish ==
    /\ slack_bot_token \in {None, "xoxb-token"}
    /\ slack_channel \in {None} \cup ChannelNames \cup ChannelIds
    /\ current_standup = None
    /\ slack_thread_ts = None
    /\ slack_channel_id = None
    /\ slack_publish_confirmed = FALSE
    /\ slack_standup_to_publish = None
    /\ last = NoCall
    /\ hist = NoHist
    /\ StoreEmpty

NextPublish ==
    \/ \E t \in TextArgs, c \in BOOLEAN, ro \in Outcomes, po \in Outcomes :
           publish_standup_to_slack(t, c, ro, po)
    \/ confirm_slack_publish
    \/ \E c \in TextArgs : SetCurrentStandup(c)
    \/ DiscoverThread

SpecPublish == InitPublish /\ [][NextPublish]_vars

(***************************************************************************)
(* Claims about the publish protocol (checked under SpecPublish)           *)
(***************************************************************************)

\* The most recent call was a publish whose preconditions were all met: token and
\* channel configured, content resolved, thread known.
CallReady ==
    /\ last.op = "publish"
    /\ Truthy(slack_bot_token) /\ Truthy(slack_channel)
    /\ Truthy(last.content) /\ Truthy(last.pre_thread)

RemedyKinds == {"no_token", "no_channel", "no_content", "no_thread"}

\* C1: with slack_publish_confirmed false, a call with confirmed=False whose token,
\* channel, content and thread are present returns the preview of its content and
\* makes no post (no client call at all, the post count does not move).
C1_UnconfirmedCallPreviews ==
    (CallReady /\ ~last.confirmed /\ ~last.pre_confirmed)
        => /\ last.kind = "preview"
           /\ last.shown = PreviewExcerpt(last.content)
           /\ last.posted_text = None
           /\ last.calls = <<>>
           /\ hist.posts = last.pre.posts

C1_Witness ==
    /\ CallReady /\ ~last.confirmed /\ ~last.pre_confirmed
    /\ last.kind = "preview"
    /\ last.pre.posts = 1

\* C2: when the most recent preview staged C and no post has succeeded since, a
\* publish that posts hands exactly C to post_to_thread, whatever current_standup
\* has become and whatever standup_text the posting call passes.
C2_PostsStagedContent ==
    (last.kind = "posted" /\ last.pre.lastPreview # None
        /\ ~last.pre.postedSincePreview)
        => last.posted_text = last.pre.lastPreview

C2_Witness ==
    /\ last.kind = "posted"
    /\ last.pre.lastPreview = "A" /\ ~last.pre.postedSincePreview
    /\ last.text = "B" /\ current_standup = "B"
    /\ last.posted_text = "A"

\* C3: after a successful post, a publish call with confirmed=False and no
\* confirm_slack_publish call in between does not post (no client call), and with
\* its preconditions met it returns a preview.
C3_PreviewAgainAfterPost ==
    (last.op = "publish" /\ ~last.confirmed /\ last.pre.postedNoConfirmSince)
        => /\ last.posted_text = None
           /\ last.calls = <<>>
           /\ hist.posts = last.pre.posts
           /\ (CallReady => last.kind = "preview")

C3_Witness ==
    /\ CallReady /\ ~last.confirmed /\ last.pre.postedNoConfirmSince
    /\ last.kind = "preview"

\* C4: the number of successful posts never exceeds the number of confirmations
\* given (confirm_slack_publish calls plus publish calls with confirmed=True), and
\* right after a successful post the flag is false and nothing is staged.
C4_OneConfirmationOnePublish ==
    /\ hist.posts <= hist.confirms
    /\ (last.kind = "posted"
           => ~slack_publish_confirmed /\ slack_standup_to_publish = None)

C4_Witness ==
    /\ last.kind = "posted"
    /\ hist.posts = 2 /\ hist.confirms = 2
    /\ last.pre_confirmed /\ last.pre_staged # None

\* C5 as stated: every posted text is a content that an earlier preview of the
\* session staged and showed.
C5_PostedWasPreviewed ==
    last.kind = "posted" => last.posted_text \in last.pre.previewed

\* C5 amended: a posted text is the content staged by the most recent preview when a
\* preview is pending (none posted since); with no pending preview it is the posting
\* call's own resolved content, which need not have been previewed.
C5_PostedIsStagedOrOwnContent ==
    last.kind = "posted"
        => IF last.pre.lastPreview # None /\ ~last.pre.postedSincePreview
           THEN /\ last.posted_text = last.pre.lastPreview
                /\ last.posted_text \in last.pre.previewed
           ELSE /\ last.posted_text = last.content
                /\ last.pre_staged = None

C5_Witness ==
    /\ last.kind = "posted"
    /\ last.pre.previewed = {"A"} /\ last.pre.postedSincePreview
    /\ last.posted_text = "B"

\* C6: a confirmed publish that fails with SlackClientError (channel resolution or
\* post) returns the error, leaves slack_publish_confirmed and
\* slack_standup_to_publish as they were, and the same call repeated with a working
\* transport posts the text the failed call tried to post.
C6_FailureKeepsState ==
    last.kind = "error"
        => /\ slack_publish_confirmed = last.pre_confirmed
           /\ slack_standup_to_publish = last.pre_staged
           /\ last.posted_text = None
           /\ LET r == PublishOutcome(last.text, last.confirmed, "ok", "ok")
              IN  r.kind = "posted" /\ r.posted_text = last.attempt

C6_Witness ==
    /\ last.kind = "error"
    /\ ~last.confirmed /\ last.pre_confirmed
    /\ last.pre_staged = "A" /\ last.attempt = "A"
    /\ last.calls = <<"conversations_list", "chat_postMessage">>

\* C7: after a confirmed publish attempt failed in transport, and with no
\* confirm_slack_publish call since, a publish call with confirmed=False for a
\* different content posts nothing and returns a preview.
C7_ConfirmationScopedToPending ==
    (CallReady /\ ~last.confirmed
        /\ last.pre.failedAttempt # None
        /\ last.content # last.pre.failedAttempt)
        => /\ last.kind = "preview"
           /\ last.posted_text = None

\* C8: a publish call with a missing precondition (token, channel, content or thread),
\* for either value of confirmed and of the flag, returns the remedy message for
\* what is missing, makes no post and no client call, and leaves the flag and the
\* staged content unchanged; with no thread nothing is posted.
C8_MissingPreconditionIsInert ==
    (last.op = "publish" /\ ~CallReady)
        => /\ last.kind \in RemedyKinds
           /\ (last.kind = "no_token" <=> ~Truthy(slack_bot_token))
           /\ (last.kind = "no_channel" => ~Truthy(slack_channel))
           /\ (last.kind = "no_content" => ~Truthy(last.content))
           /\ (last.kind = "no_thread" => ~Truthy(last.pre_thread))
           /\ last.posted_text = None
           /\ last.calls = <<>>
           /\ hist.posts = last.pre.posts
           /\ slack_publish_confirmed = last.pre_confirmed
           /\ slack_standup_to_publish = last.pre_staged

C8_Witness ==
    /\ last.op = "publish" /\ last.kind = "no_thread"
    /\ last.confirmed /\ last.pre_confirmed
    /\ Truthy(last.content)

(***************************************************************************)
(* Task store (tools/tasks/task_store.py)                                  *)
(***************************************************************************)

\* Last value the clock takes in an explored run.
MaxTime == 2

\* SQL NULL in a timestamp column (completed_at TEXT, nullable).
NullTime == -1

\* Task ids that calls are made with; uuid.uuid4().hex[:12] draws an arbitrary id,
\* and NewIds are the ids it draws under SpecStore ("t2" stays an unknown id there).
TaskIds == {"t1", "t2"}
NewIds == {"t1"}
UpdateIds == {"u1"}
Usernames == {None, "alice"}
\* The tags argument: None, or a list.
TagArgs == {[none |-> TRUE, list |-> <<>>],
            [none |-> FALSE, list |-> <<>>],
            [none |-> FALSE, list |-> <<"backend">>]}
Statuses == {"in_progress", "completed", "abandoned"}
\* update_task_status takes any string; "done" is one outside the three.
StatusArgs == Statuses \cup {"done"}
Notes == {"note"}
Refs == {"org/repo#1"}
Columns == {"related_prs", "related_issues"}

\* json.dumps / json.loads of a list of strings: the column holds text.
JsonDumps(list) == [json |-> list]
JsonLoads(text) == text.json

\* Python's `tags or []`: None and the empty list give [].
TagsOrEmpty(tags) == IF tags.none \/ tags.list = <<>> THEN <<>> ELSE tags.list

\* _row_to_dict: the JSON columns parsed.
row_to_dict(row) ==
    [row EXCEPT !.tags = JsonLoads(@),
                !.related_prs = JsonLoads(@),
                !.related_issues = JsonLoads(@)]

InList(v, list) == \E i \in 1..Len(list) : list[i] = v

\* create_task's INSERT: status 'in_progress', both timestamps now, '[]' lists,
\* completed_at left NULL.
NewTaskRow(username, title, tags, t) ==
    [title |-> title, status |-> "in_progress",
     created_at |-> t, updated_at |-> t, completed_at |-> NullTime,
     github_username |-> username,
     tags |-> JsonDumps(TagsOrEmpty(tags)),
     related_prs |-> JsonDumps(<<>>), related_issues |-> JsonDumps(<<>>)]

\* Line 80: completed_at = now if status == "completed" else None
CompletedAtParam(status, t) == IF status = "completed" THEN t ELSE NullTime

\* SQL COALESCE(a, b): the first argument that is not NULL.
Coalesce(a, b) == IF a # NullTime THEN a ELSE b

\* Lines 82-86: UPDATE tasks SET status = ?, updated_at = ?,
\*              completed_at = COALESCE(?, completed_at) WHERE id = ?
CompletedAtWriteNever(param, old) == old
CompletedAtWrite(param, old) == Coalesce(param, old)

StatusRowUpdateResettingTags(row, status, t) ==
    [row EXCEPT !.status = status,
                !.updated_at = t,
                !.tags = JsonDumps(<< >>)]
StatusRowUpdate(row, status, t) ==
    [row EXCEPT !.status = status,
                !.updated_at = t,
                !.completed_at = CompletedAtWrite(CompletedAtParam(status, t), @)]

\* The same rows had line 120 read ORDER BY created_at DESC.
UpdatesNewestFirst(id) ==
    LET idx == {i \in 1..Len(task_updates) : task_updates[i].task_id = id}
        before(i, j) == \/ task_updates[i].created_at > task_updates[j].created_at
                        \/ /\ task_updates[i].created_at = task_updates[j].created_at
                           /\ i > j
        rank(i) == Cardinality({j \in idx : before(j, i)}) + 1
    IN  [k \in 1..Cardinality(idx) |->
            task_updates[CHOOSE i \in idx : rank(i) = k]]

\* get_task: the task with its updates ordered by created_at (ties in rowid order),
\* or None.
UpdatesOf(id) ==
    LET idx == {i \in 1..Len(task_updates) : task_updates[i].task_id = id}
        before(i, j) == \/ task_updates[i].created_at < task_updates[j].created_at
                        \/ /\ task_updates[i].created_at = task_updates[j].created_at
                           /\ i < j
        rank(i) == Cardinality({j \in idx : before(j, i)}) + 1
    IN  [k \in 1..Cardinality(idx) |->
            task_updates[CHOOSE i \in idx : rank(i) = k]]

get_task(id) ==
    IF id \in DOMAIN tasks
    THEN [found |-> TRUE, task |-> row_to_dict(tasks[id]), updates |-> UpdatesOf(id)]
    ELSE [found |-> FALSE, task |-> None, updates |-> << >>]

\* update_task_status on table T: the UPDATE touches the row if it exists.
DbUpsertTaskStatus(T, id, status, t) ==
    IF id \in DOMAIN T THEN [T EXCEPT ![id] = StatusRowUpdate(@, status, t)]
    ELSE T @@ (id :> StatusRowUpdate(NewTaskRow(None, "title", [none |-> TRUE, list |-> <<>>], t),
                                     status, t))
DbUpdateTaskStatus(T, id, status, t) ==
    IF id \in DOMAIN T THEN [T EXCEPT ![id] = StatusRowUpdate(@, status, t)] ELSE T

\* _connect, line 41: PRAGMA foreign_keys = ON.
ForeignKeysOff == FALSE
ForeignKeysOn == TRUE

\* Lines 101-104: the INSERT into task_updates fails with IntegrityError when the
\* update id exists (PRIMARY KEY) or the task does not (REFERENCES tasks(id) with
\* PRAGMA foreign_keys = ON).
InsertUpdateFails(T, U, uid, id) ==
    \/ \E i \in 1..Len(U) : U[i].id = uid
    \/ ForeignKeysOn /\ id \notin DOMAIN T
DbInsertTaskUpdate(U, uid, id, note, t) ==
    Append(U, [id |-> uid, task_id |-> id, note |-> note, created_at |-> t])

\* Line 105: UPDATE tasks SET updated_at = ? WHERE id = ?
DbTouchTask(T, id, t) == IF id \in DOMAIN T THEN [T EXCEPT ![id].updated_at = t] ELSE T

\* add_task_update on (T, U): the INSERT, then the UPDATE that touches the task.
DbAddTaskUpdate(T, U, uid, id, note, t) ==
    IF InsertUpdateFails(T, U, uid, id)
    THEN [ok |-> FALSE, tasks |-> T, updates |-> U]
    ELSE [ok |-> TRUE,
          tasks |-> DbTouchTask(T, id, t),
          updates |-> DbInsertTaskUpdate(U, uid, id, note, t)]

\* Lines 221-223 of _add_to_json_list: append the value unless already present.
AppendAlways(list, v) == Append(list, v)
AppendIfAbsent(list, v) == IF InList(v, list) THEN list ELSE Append(list, v)

StoreCall(op, id, arg, result) ==
    [op |-> op, variant |-> "store", id |-> id, arg |-> arg, result |-> result,
     events |-> << >>, telemetry |-> "none"]

\* create_task(username, title, tags)
create_task(id, username, tags) ==
    /\ IF id \in DOMAIN tasks
       THEN /\ UNCHANGED <<tasks, store_hist>>
            /\ store_last' = StoreCall("create_task", id, tags, "IntegrityError")
       ELSE /\ tasks' = tasks @@ (id :> NewTaskRow(username, "title", tags, now))
            /\ store_hist' = [store_hist EXCEPT !.completed_ever = @ \ {id},
                                                !.returned = @ \cup {id}]
            /\ store_last' = StoreCall("create_task", id, tags, "created")
    /\ UNCHANGED <<task_updates, now>>
    /\ UNCHANGED <<pubvars, conns>>

\* update_task_status(task_id, status)
update_task_status(id, status) ==
    /\ tasks' = DbUpdateTaskStatus(tasks, id, status, now)
    /\ store_hist' = IF id \in DOMAIN tasks /\ status = "completed"
                     THEN [store_hist EXCEPT !.completed_ever = @ \cup {id}]
                     ELSE store_hist
    /\ store_last' = StoreCall("update_task_status", id, status,
                               IF id \in DOMAIN tasks THEN "row" ELSE None)
    /\ UNCHANGED <<task_updates, now>>
    /\ UNCHANGED <<pubvars, conns>>

\* get_task(task_id) called through the store API: the task with its updates, or None.
call_get_task(id) ==
    /\ store_last' = StoreCall("get_task", id, None,
                               IF get_task(id).found
                               THEN [task |-> get_task(id).task,
                                     updates |-> get_task(id).updates]
                               ELSE None)
    /\ UNCHANGED <<tasks, task_updates, now, store_hist>>
    /\ UNCHANGED <<pubvars, conns>>

\* add_task_update(task_id, note)
add_task_update(uid, id, note) ==
    LET r == DbAddTaskUpdate(tasks, task_updates, uid, id, note, now)
    IN  /\ tasks' = r.tasks
        /\ task_updates' = r.updates
        /\ store_last' = StoreCall("add_task_update", id, note,
                                   IF r.ok THEN "row" ELSE "IntegrityError")
        /\ UNCHANGED <<now, store_hist>>
        /\ UNCHANGED <<pubvars, conns>>

\* The record of first links after ref is linked to column of task id: a reference
\* not linked before takes the next position, one linked before keeps its own.
FirstLinked(h, id, column, ref) ==
    LET mine == {e \in h : e[1] = id /\ e[2] = column}
    IN  IF \E e \in mine : e[3] = ref THEN h
        ELSE h \cup {<<id, column, ref, Cardinality(mine) + 1>>}

\* link_task_to_pr / link_task_to_issue, that is _add_to_json_list(task_id, column, value)
add_to_json_list(id, column, value) ==
    /\ IF id \notin DOMAIN tasks
       THEN /\ UNCHANGED tasks
            /\ store_last' = StoreCall(column, id, value, FALSE)
       ELSE LET current == JsonLoads(tasks[id][column])
                new == AppendIfAbsent(current, value)
            IN  /\ tasks' = [tasks EXCEPT ![id] =
                                [@ EXCEPT ![column] = JsonDumps(new),
                                          !.updated_at = now]]
                /\ store_last' = StoreCall(column, id, value, TRUE)
    /\ store_hist' = IF id \in DOMAIN tasks
                     THEN [store_hist EXCEPT !.first_linked =
                              FirstLinked(@, id, column, value)]
                     ELSE store_hist
    /\ UNCHANGED <<task_updates, now>>
    /\ UNCHANGED <<pubvars, conns>>

\* clear_all_tasks()
clear_all_tasks ==
    /\ tasks' = EmptyTable
    /\ task_updates' = << >>
    /\ store_hist' = [store_hist EXCEPT !.completed_ever = {}, !.first_linked = {}]
    /\ store_last' = StoreCall("clear_all_tasks", None, None, Cardinality(DOMAIN tasks))
    /\ UNCHANGED now
    /\ UNCHANGED <<pubvars, conns>>

\* Time passes between calls.
Tick ==
    /\ now < MaxTime
    /\ now' = now + 1
    /\ UNCHANGED <<tasks, task_updates, store_last, store_hist>>
    /\ UNCHANGED <<pubvars, conns>>

\* Arguments of the tools: an optional note, an optional status.
NoteArgs == {None, "note"}
ToolStatusArgs == StatusArgs \cup {None}

\* The two sets of tools: the agent's function tools (task_tools.py), which return a
\* message alone (status None here), and the MCP server's (mcp_server.py), which
\* return a dict with a status and a message.
Variants == {"agent", "mcp"}
ToolReturn(variant, ok, message) ==
    [status |-> IF variant = "mcp" THEN (IF ok THEN "ok" ELSE "error") ELSE None,
     message |-> message]
\* A tool call that ends with an exception of the store propagating out of the tool.
ToolRaised(exc) == [status |-> "raised", message |-> exc]

\* The status a tool accepts: the agent tool's parameter is a Literal of the three
\* statuses or None, the MCP tool's is any string or None.
ToolStatusArgsOf(variant) ==
    IF variant = "mcp" THEN ToolStatusArgs ELSE Statuses \cup {None}

\* A tool call: what it returned (or the exception it raised) and the telemetry
\* events it handed to capture_event.
ToolCall(op, variant, id, arg, result, events) ==
    [op |-> op, variant |-> variant, id |-> id, arg |-> arg, result |-> result,
     events |-> events, telemetry |-> "none"]

\* What becomes of an event handed to capture_event: the transport delivers it
\* or fails.
TransportUp == "ok"
TransportOutcomes == {"ok", "fail"}

\* capture_event(event_name, properties): the exception that leaves it ("none" when
\* it returns). Emission is best-effort: a failure of the transport is swallowed.
CaptureEventPropagates(tel) == IF tel = "fail" THEN "Exception" ELSE "none"
capture_event(tel) == "none"

\* The tools call capture_event after their writes and before building their return
\* value, with no handler around the call: an exception leaving capture_event leaves
\* the tool. call is the record of the tool call had capture_event returned.
Emit(call, tel) ==
    [call EXCEPT !.telemetry = tel,
                 !.result = IF capture_event(tel) = "none" THEN @
                            ELSE ToolRaised(capture_event(tel))]

\* complete_task(task_id, note) of task_tools.py and of mcp_server.py: get_task, then
\* add_task_update when a note is given, then update_task_status(.., "completed").
\* d is the time that passes between the two writes.
complete_task(variant, id, note, uid, d, tel) ==
    LET existing == get_task(id)
        added == IF Truthy(note)
                 THEN DbAddTaskUpdate(tasks, task_updates, uid, id, note, now)
                 ELSE [ok |-> TRUE, tasks |-> tasks, updates |-> task_updates]
    IN  /\ now + d <= MaxTime
        /\ IF ~existing.found
           THEN /\ UNCHANGED <<tasks, task_updates, now, store_hist>>
                /\ store_last' = ToolCall("complete_task", variant, id, note,
                                          ToolReturn(variant, FALSE, "not found"), <<>>)
           ELSE IF ~added.ok
           THEN /\ UNCHANGED <<tasks, task_updates, now, store_hist>>
                /\ store_last' = ToolCall("complete_task", variant, id, note,
                                          ToolRaised("IntegrityError"), <<>>)
           ELSE /\ tasks' = DbUpdateTaskStatus(added.tasks, id, "completed", now + d)
                /\ task_updates' = added.updates
                /\ now' = now + d
                /\ store_hist' = [store_hist EXCEPT !.completed_ever = @ \cup {id}]
                /\ store_last' = Emit(ToolCall("complete_task", variant, id, note,
                                               ToolReturn(variant, TRUE, "Completed"),
                                               <<"task_completed">>), tel)
        /\ UNCHANGED <<pubvars, conns>>

\* update_task(task_id, note, status) of task_tools.py and of mcp_server.py: get_task,
\* add_task_update, then update_task_status when a different status is given.
update_task(variant, id, note, status, uid, d, tel) ==
    LET existing == get_task(id)
        added == DbAddTaskUpdate(tasks, task_updates, uid, id, note, now)
        change == Truthy(status) /\ status # existing.task.status
    IN  /\ now + d <= MaxTime
        /\ status \in ToolStatusArgsOf(variant)
        /\ IF ~existing.found
           THEN /\ UNCHANGED <<tasks, task_updates, now, store_hist>>
                /\ store_last' = ToolCall("update_task", variant, id, status,
                                          ToolReturn(variant, FALSE, "not found"), <<>>)
           ELSE IF ~added.ok
           THEN /\ UNCHANGED <<tasks, task_updates, now, store_hist>>
                /\ store_last' = ToolCall("update_task", variant, id, status,
                                          ToolRaised("IntegrityError"), <<>>)
           ELSE /\ tasks' = IF change
                            THEN DbUpdateTaskStatus(added.tasks, id, status, now + d)
                            ELSE added.tasks
                /\ task_updates' = added.updates
                /\ now' = IF change THEN now + d ELSE now
                /\ store_hist' = IF change /\ status = "completed"
                                 THEN [store_hist EXCEPT !.completed_ever = @ \cup {id}]
                                 ELSE store_hist
                /\ store_last' = Emit(ToolCall("update_task", variant, id, status,
                                               ToolReturn(variant, TRUE, "Updated"),
                                               <<"task_updated">>), tel)
        /\ UNCHANGED <<pubvars, conns>>

\* The store as ensure_tasks_db() leaves it on first use; no publish session runs.
InitStore ==
    /\ slack_bot_token = None
    /\ slack_channel = None
    /\ current_standup = None
    /\ slack_thread_ts = None
    /\ slack_channel_id = None
    /\ slack_publish_confirmed = FALSE
    /\ slack_standup_to_publish = None
    /\ last = NoCall
    /\ hist = NoHist
    /\ StoreEmpty

NextStore ==
    \/ \E id \in NewIds, u \in Usernames, tg \in TagArgs : create_task(id, u, tg)
    \/ \E id \in TaskIds, st \in StatusArgs : update_task_status(id, st)
    \/ \E uid \in UpdateIds, id \in TaskIds, n \in Notes : add_task_update(uid, id, n)
    \/ \E id \in TaskIds, col \in Columns, v \in Refs : add_to_json_list(id, col, v)
    \/ clear_all_tasks
    \/ \E id \in TaskIds : call_get_task(id)
    \/ \E id \in TaskIds, n \in NoteArgs, uid \in UpdateIds, d \in 0..1 :
           complete_task("mcp", id, n, uid, d, TransportUp)
    \/ \E id \in TaskIds, n \in Notes, st \in ToolStatusArgs, uid \in UpdateIds,
          d \in 0..1 :
           update_task("mcp", id, n, st, uid, d, TransportUp)
    \/ Tick

SpecStore == InitStore /\ [][NextStore]_vars

(***************************************************************************)
(* Claims about the task store (checked under SpecStore)                   *)
(***************************************************************************)

StatusWriters == {"update_task_status", "complete_task", "update_task"}

\* C9: once a task's completed_at is set, no update_task_status call on that task
\* (direct, or made by the complete_task and update_task tools), to any status,
\* changes its value.
C9_CompletedAtNeverChanges ==
    [][\A id \in TaskIds :
          (/\ store_last'.op \in StatusWriters
           /\ id \in DOMAIN tasks /\ id \in DOMAIN tasks'
           /\ tasks[id].completed_at # NullTime)
              => tasks'[id].completed_at = tasks[id].completed_at]_vars

\* C10: a task just created has status in_progress, the tags given (none: empty),
\* empty related_prs and related_issues and a null completed_at; in every state a
\* completed task has a completed_at, and a task never set to completed has none.
C10_CreatedTaskAndCompletedAt ==
    /\ (store_last.op = "create_task" /\ store_last.result = "created")
          => LET t == get_task(store_last.id).task
             IN  /\ t.status = "in_progress"
                 /\ t.tags = (IF store_last.arg.none THEN <<>> ELSE store_last.arg.list)
                 /\ t.related_prs = <<>> /\ t.related_issues = <<>>
                 /\ t.completed_at = NullTime
                 /\ t.created_at = t.updated_at
    /\ \A id \in DOMAIN tasks :
          /\ tasks[id].status = "completed" => tasks[id].completed_at # NullTime
          /\ id \notin store_hist.completed_ever => tasks[id].completed_at = NullTime

C10_Witness ==
    /\ "t1" \in DOMAIN tasks
    /\ tasks["t1"].status = "abandoned"
    /\ tasks["t1"].completed_at = 1
    /\ tasks["t1"].created_at = 0 /\ tasks["t1"].updated_at = 2
    /\ "t1" \in store_hist.completed_ever

(***************************************************************************)
(* Queries of the task store (list_tasks, get_tasks_for_standup)           *)
(***************************************************************************)

\* The clock counts half days: timedelta(days=days_back) is this many ticks.
TicksPerDay == 2

\* datetime.isoformat(): the wall-clock reading of the instant at the datetime's UTC
\* offset, followed by the offset suffix ("+00:00" for UTC).
IsoFormat(instant, offset) == [wall |-> instant + offset, offset |-> offset]

\* _now_iso(): datetime.now(UTC).isoformat(). A timestamp column holding t holds
\* this text.
now_iso(t) == IsoFormat(t, 0)

\* Position of an offset suffix in text order: "+00:00" < "+12:00" < "-12:00"
\* (an offset is less than a day, so every "-" suffix ranks above every "+" one).
OffsetRank(o) == IF o >= 0 THEN o ELSE TicksPerDay - o

\* SQLite compares TEXT columns as strings: a >= b.
TextGeq(a, b) ==
    \/ a.wall > b.wall
    \/ a.wall = b.wall /\ OffsetRank(a.offset) >= OffsetRank(b.offset)

\* `AND github_username = ?`, added only when username is truthy.
UsernameClause(row, username) == Truthy(username) => row.github_username = username

\* Lines 170-173: WHERE (updated_at >= ? OR status = 'in_progress') {username_clause}
StandupMatchesWindowOnly(row, username, since_iso) ==
    /\ TextGeq(now_iso(row.updated_at), since_iso)
    /\ UsernameClause(row, username)
StandupMatchesNoParentheses(row, username, since_iso) ==
    \/ TextGeq(now_iso(row.updated_at), since_iso)
    \/ row.status = "in_progress" /\ UsernameClause(row, username)
StandupMatches(row, username, since_iso) ==
    /\ TextGeq(now_iso(row.updated_at), since_iso) \/ row.status = "in_progress"
    /\ UsernameClause(row, username)

\* ORDER BY updated_at DESC: the orders of the rows S the statement can return (rows
\* with equal updated_at come in either order).
Perms(S) ==
    {f \in [1..Cardinality(S) -> S] : \A i, j \in 1..Cardinality(S) : i # j => f[i] # f[j]}
OrderByUpdatedAtDesc(S) ==
    {f \in Perms(S) :
        \A i, j \in 1..Cardinality(S) :
            i < j => TextGeq(now_iso(tasks[f[i]].updated_at), now_iso(tasks[f[j]].updated_at))}

\* A task as the queries return it: the row's columns (id included), JSON parsed.
TaskDict(id) == [id |-> id] @@ row_to_dict(tasks[id])
\* get_tasks_for_standup joins each task's updates (lines 178-185).
TaskWithUpdates(id) == [updates |-> UpdatesOf(id)] @@ TaskDict(id)

DaysBackArgs == {0, 1}

\* What get_tasks_for_standup(username, days_back) can return: the matching tasks with
\* their updates, in a row order SQLite can return.
StandupResults(username, days_back) ==
    LET since_iso == now_iso(now - days_back * TicksPerDay)
        ids == {id \in DOMAIN tasks : StandupMatches(tasks[id], username, since_iso)}
    IN  {[k \in 1..Len(order) |-> TaskWithUpdates(order[k])] :
            order \in OrderByUpdatedAtDesc(ids)}

\* get_tasks_for_standup(username, days_back); order is the row order SQLite returns.
get_tasks_for_standup(username, days_back) ==
    /\ \E r \in StandupResults(username, days_back) :
           store_last' = StoreCall("get_tasks_for_standup", None,
                                   [username |-> username, days_back |-> days_back,
                                    at |-> now], r)
    /\ UNCHANGED <<tasks, task_updates, now, store_hist>>
        /\ UNCHANGED <<pubvars, conns>>

\* The since argument of list_tasks: None, or a datetime (an instant at a UTC offset).
NoSince == [none |-> TRUE, instant |-> 0, offset |-> 0]
SinceArgs == {NoSince} \cup
             {[none |-> FALSE, instant |-> 1, offset |-> o] : o \in {0, 1}}

\* Lines 138-148: one clause per truthy filter, joined with AND; a datetime is truthy.
ListMatches(row, username, status, since) ==
    /\ Truthy(username) => row.github_username = username
    /\ Truthy(status) => row.status = status
    /\ ~since.none =>
          TextGeq(now_iso(row.updated_at), IsoFormat(since.instant, since.offset))

\* What list_tasks(username, status, since) can return: the matching tasks in a row
\* order SQLite can return.
ListResults(username, status, since) ==
    LET ids == {id \in DOMAIN tasks : ListMatches(tasks[id], username, status, since)}
    IN  {[k \in 1..Len(order) |-> TaskDict(order[k])] :
            order \in OrderByUpdatedAtDesc(ids)}

\* list_tasks(username, status, since); order is the row order SQLite returns.
list_tasks(username, status, since) ==
    /\ \E r \in ListResults(username, status, since) :
           store_last' = StoreCall("list_tasks", None,
                                   [username |-> username, status |-> status,
                                    since |-> since, at |-> now], r)
    /\ UNCHANGED <<tasks, task_updates, now, store_hist>>
        /\ UNCHANGED <<pubvars, conns>>

\* Filters the queries are called with under SpecQuery.
QueryStatusArgs == {None, "completed"}
QueryTags == [none |-> TRUE, list |-> <<>>]

\* The store with tasks of two owners being created, finished and queried.
NextQuery ==
    \/ \E id \in TaskIds, u \in Usernames : create_task(id, u, QueryTags)
    \/ \E id \in TaskIds, st \in {"completed", "abandoned"} : update_task_status(id, st)
    \/ Tick
    \/ \E u \in Usernames, d \in DaysBackArgs : get_tasks_for_standup(u, d)
    \/ \E u \in Usernames, st \in QueryStatusArgs, since \in SinceArgs :
           list_tasks(u, st, since)

SpecQuery == InitStore /\ [][NextQuery]_vars

\* The step is a call of op (a query leaves everything but store_last unchanged).
Called(op) == store_last' # store_last /\ store_last'.op = op

\* C11: get_tasks_for_standup(owner, days_back) returns every task of the owner that
\* is in_progress, however old its updated_at, and every task of the owner whose
\* updated_at is at or after now - days_back; no completed or abandoned task it
\* returns has an updated_at before now - days_back. Returned tasks are the stored rows.
C11_StandupWindow ==
    [][Called("get_tasks_for_standup") =>
          LET a == store_last'.arg
              r == store_last'.result
              returned == {r[k].id : k \in 1..Len(r)}
              since == a.at - a.days_back * TicksPerDay
              owned(id) == Truthy(a.username) => tasks[id].github_username = a.username
          IN  /\ \A id \in DOMAIN tasks :
                    (owned(id) /\ tasks[id].status = "in_progress") => id \in returned
              /\ \A id \in DOMAIN tasks :
                    (owned(id) /\ tasks[id].updated_at >= since) => id \in returned
              /\ \A k \in 1..Len(r) :
                    /\ r[k].id \in DOMAIN tasks
                    /\ r[k] = TaskWithUpdates(r[k].id)
                    /\ r[k].status \in {"completed", "abandoned"}
                          => r[k].updated_at >= since]_vars

C11_Witness ==
    /\ store_last.op = "get_tasks_for_standup"
    /\ store_last.arg.username = "alice" /\ store_last.arg.days_back = 0
    /\ DOMAIN tasks = {"t1", "t2"}
    /\ tasks["t1"].status = "in_progress" /\ tasks["t1"].github_username = "alice"
    /\ tasks["t1"].updated_at < now
    /\ tasks["t2"].status = "completed" /\ tasks["t2"].github_username = "alice"
    /\ tasks["t2"].updated_at < now
    /\ Len(store_last.result) = 1 /\ store_last.result[1].id = "t1"

\* C16: list_tasks(username, status, since) returns exactly the tasks that satisfy
\* every filter given (owner equal to username, status equal to status, updated_at
\* at or after the instant since), all tasks with no filter, each once, as stored,
\* ordered by updated_at descending.
C16_ListTasksFilters ==
    [][Called("list_tasks") =>
          LET a == store_last'.arg
              r == store_last'.result
              returned == {r[k].id : k \in 1..Len(r)}
              satisfies(id) ==
                  /\ Truthy(a.username) => tasks[id].github_username = a.username
                  /\ Truthy(a.status) => tasks[id].status = a.status
                  /\ ~a.since.none => tasks[id].updated_at >= a.since.instant
          IN  /\ returned = {id \in DOMAIN tasks : satisfies(id)}
              /\ Len(r) = Cardinality(returned)
              /\ \A k \in 1..Len(r) : r[k] = TaskDict(r[k].id)
              /\ \A i, j \in 1..Len(r) :
                    i < j => r[i].updated_at >= r[j].updated_at]_vars

(***************************************************************************)
(* Links (link_task_to_pr, link_task_to_issue)                             *)
(***************************************************************************)

\* References linked under SpecLink.
LinkRefs == {"org/repo#1", "org/repo#2", "org/repo#3"}

\* A task being linked to several PRs and issues, in any order and repeatedly.
NextLink ==
    \/ \E id \in NewIds, u \in Usernames : create_task(id, u, QueryTags)
    \/ \E id \in TaskIds, col \in Columns, v \in LinkRefs : add_to_json_list(id, col, v)
    \/ clear_all_tasks
    \/ Tick

SpecLink == InitStore /\ [][NextLink]_vars

\* C12: in every state, related_prs and related_issues of every task hold no
\* reference twice, and hold exactly the references linked to the task since it was
\* created, each once, in the order in which they were first linked.
C12_NoDuplicateLinks ==
    \A id \in DOMAIN tasks, col \in Columns :
        LET list == row_to_dict(tasks[id])[col]
            linked == {e \in store_hist.first_linked : e[1] = id /\ e[2] = col}
        IN  /\ \A i, j \in 1..Len(list) : i # j => list[i] # list[j]
            /\ Len(list) = Cardinality(linked)
            /\ \A e \in linked : e[4] <= Len(list) /\ list[e[4]] = e[3]

C12_Witness ==
    /\ store_last.op = "related_prs" /\ store_last.result = TRUE
    /\ store_last.id = "t1" /\ store_last.arg = "org/repo#2"
    /\ row_to_dict(tasks["t1"]).related_prs = <<"org/repo#2", "org/repo#1">>
    /\ row_to_dict(tasks["t1"]).related_issues = <<"org/repo#1">>

(***************************************************************************)
(* Claims about identifiers, unknown ids and statuses (SpecStore)          *)
(***************************************************************************)

\* C13: the ids of the tasks in the store are pairwise distinct (tasks is keyed by
\* id), and no create_task call returns an id that an earlier create_task call
\* returned, whatever calls (clear_all_tasks included) come in between.
C13_IdsNeverReused ==
    [][(Called("create_task") /\ store_last'.result = "created")
          => /\ store_last'.id \notin store_hist.returned
             /\ store_last'.id \notin DOMAIN tasks
             /\ store_last'.id \in DOMAIN tasks']_vars

\* What each store operation returns for a task id that is not in the store.
LinkOps == {"related_prs", "related_issues"}

\* C14: update_task_status, get_task, link_task_to_pr and link_task_to_issue called
\* with a task id that is not in the store return None, None, False and False, and
\* leave the tasks and task_updates tables exactly as they were.
C14_UnknownIdIsAValue ==
    [][\A id \in TaskIds :
          (/\ store_last' # store_last
           /\ store_last'.op \in {"update_task_status", "get_task"} \cup LinkOps
           /\ store_last'.id = id
           /\ id \notin DOMAIN tasks)
              => /\ IF store_last'.op \in LinkOps
                    THEN store_last'.result = FALSE
                    ELSE store_last'.result = None
                 /\ tasks' = tasks
                 /\ task_updates' = task_updates]_vars

C14_Witness ==
    /\ store_last.op = "update_task_status" /\ store_last.id = "t2"
    /\ store_last.arg = "completed" /\ store_last.result = None
    /\ DOMAIN tasks = {"t1"} /\ tasks["t1"].status = "in_progress"
    /\ Len(task_updates) = 1

\* C15: in every state each row of task_updates has the id of a row of tasks as its
\* task_id; add_task_update for an unknown task id fails and inserts nothing.
C15_UpdatesReferenceTasks ==
    /\ \A i \in 1..Len(task_updates) : task_updates[i].task_id \in DOMAIN tasks
    /\ (store_last.op = "add_task_update" /\ store_last.id \notin DOMAIN tasks)
          => store_last.result = "IntegrityError"

C15_Witness ==
    /\ store_last.op = "add_task_update" /\ store_last.id = "t2"
    /\ store_last.result = "IntegrityError"
    /\ DOMAIN tasks = {"t1"}
    /\ task_updates = << >>

\* C19: in every state the status of every stored task is one of in_progress,
\* completed, abandoned.
C19_StatusInDomain ==
    \A id \in DOMAIN tasks : tasks[id].status \in Statuses

(***************************************************************************)
(* The task tools called with unknown ids (task_tools.py, mcp_server.py)   *)
(***************************************************************************)

\* _add_to_json_list on table T for a task that exists.
DbLink(T, id, column, value, t) ==
    [T EXCEPT ![id] = [@ EXCEPT ![column] = JsonDumps(AppendIfAbsent(JsonLoads(@), value)),
                                !.updated_at = t]]

RefArgs == {None, "org/repo#1"}

\* link_task, lines 251-253: the lookup that ends the call for an unknown task.
LinkLookupSkipped(id) == [found |-> TRUE, task |-> None, updates |-> << >>]
LinkLookup(id) == get_task(id)

\* link_task(task_id, pr, issue) of task_tools.py: with neither reference it returns
\* at once; else get_task, then link_task_to_pr and link_task_to_issue for the
\* references given. d is the time that passes between the two writes.
link_task(id, pr, issue, d) ==
    LET existing == LinkLookup(id)
        both == Truthy(pr) /\ Truthy(issue)
        call(result) == ToolCall("link_task", "agent", id, [pr |-> pr, issue |-> issue],
                                 result, <<>>)
    IN  /\ now + d <= MaxTime
        /\ d = 0 \/ both
        /\ IF ~Truthy(pr) /\ ~Truthy(issue)
           THEN /\ UNCHANGED <<tasks, now, store_hist>>
                /\ store_last' = call(ToolReturn("agent", TRUE,
                                                 "Provide a PR or issue reference to link."))
           ELSE IF ~existing.found
           THEN /\ UNCHANGED <<tasks, now, store_hist>>
                /\ store_last' = call(ToolReturn("agent", FALSE, "not found"))
           ELSE LET t1 == IF Truthy(pr) /\ id \in DOMAIN tasks
                          THEN DbLink(tasks, id, "related_prs", pr, now) ELSE tasks
                    h1 == IF Truthy(pr) /\ id \in DOMAIN tasks
                          THEN FirstLinked(store_hist.first_linked, id, "related_prs", pr)
                          ELSE store_hist.first_linked
                    t2 == IF Truthy(issue) /\ id \in DOMAIN tasks
                          THEN DbLink(t1, id, "related_issues", issue, now + d) ELSE t1
                    h2 == IF Truthy(issue) /\ id \in DOMAIN tasks
                          THEN FirstLinked(h1, id, "related_issues", issue) ELSE h1
                IN  /\ tasks' = t2
                    /\ now' = now + d
                    /\ store_hist' = [store_hist EXCEPT !.first_linked = h2]
                    /\ store_last' = call(ToolReturn("agent", TRUE, "Linked"))
        /\ UNCHANGED task_updates
        /\ UNCHANGED <<pubvars, conns>>

\* The tools of both variants called with known and unknown task ids.
NextTools ==
    \/ \E id \in NewIds, u \in Usernames : create_task(id, u, QueryTags)
    \/ \E v \in Variants, id \in TaskIds, n \in NoteArgs, uid \in UpdateIds, d \in 0..1 :
           complete_task(v, id, n, uid, d, TransportUp)
    \/ \E v \in Variants, id \in TaskIds, n \in Notes, st \in ToolStatusArgs,
          uid \in UpdateIds, d \in 0..1 :
           update_task(v, id, n, st, uid, d, TransportUp)
    \/ \E id \in TaskIds, pr \in RefArgs, issue \in RefArgs, d \in 0..1 :
           link_task(id, pr, issue, d)
    \/ clear_all_tasks
    \/ Tick

SpecTools == InitStore /\ [][NextTools]_vars

\* The step is a call of a task tool with a task id that is not in the store.
ToolCalledWithUnknownId ==
    /\ store_last' # store_last
    /\ store_last'.op \in {"update_task", "complete_task", "link_task"}
    /\ store_last'.id \notin DOMAIN tasks

\* What a tool call with an unknown id does: a not-found result (in the MCP variant
\* with status 'error'), both tables unchanged, no telemetry event.
NotFoundAndInert ==
    /\ store_last'.result.message = "not found"
    /\ store_last'.variant = "mcp" => store_last'.result.status = "error"
    /\ tasks' = tasks
    /\ task_updates' = task_updates
    /\ store_last'.events = << >>

\* C20 as stated: update_task, complete_task and link_task called with a task id that
\* is not in the store return a not-found result, leave the store unchanged and emit
\* no telemetry event.
C20_ToolsReportNotFound ==
    [][ToolCalledWithUnknownId => NotFoundAndInert]_vars

\* C20 amended: the same for update_task, complete_task, and link_task called with a
\* pr or an issue reference; link_task called with neither returns the request for a
\* reference, whatever the task id, and also changes and emits nothing.
C20_ToolsReportNotFoundGivenARef ==
    [][ToolCalledWithUnknownId =>
          IF /\ store_last'.op = "link_task"
             /\ ~Truthy(store_last'.arg.pr) /\ ~Truthy(store_last'.arg.issue)
          THEN /\ store_last'.result.message = "Provide a PR or issue reference to link."
               /\ tasks' = tasks
               /\ task_updates' = task_updates
               /\ store_last'.events = << >>
          ELSE NotFoundAndInert]_vars

C20_Witness ==
    /\ store_last.op = "link_task" /\ store_last.id = "t2"
    /\ store_last.arg.pr = "org/repo#1" /\ store_last.arg.issue = None
    /\ store_last.result.message = "not found"
    /\ DOMAIN tasks = {"t1"} /\ Len(task_updates) = 1
    /\ row_to_dict(tasks["t1"]).related_prs = <<"org/repo#1">>

(***************************************************************************)
(* Concurrent sessions: the statements of add_task_update and of           *)
(* clear_all_tasks, each call on its own connection (SpecConcurrent)       *)
(***************************************************************************)

\* _connect, line 39: sqlite3.connect() with the default isolation_level, so the
\* module opens a transaction before a connection's first INSERT/UPDATE/DELETE and
\* only commit() ends it. In autocommit mode every statement would commit by itself.
AutocommitMode == FALSE
ImplicitTransactions == TRUE

\* SQLite admits one writer: another session's open transaction holds the lock.
LockedByOther(s) == \E o \in Sessions \ {s} : conns[o].txn.open

\* The tables as a statement of session s reads them: those of its own open
\* transaction, else the committed ones (other sessions' open transactions are
\* not visible).
ViewOf(s) ==
    IF conns[s].txn.open
    THEN [tasks |-> conns[s].txn.tasks, updates |-> conns[s].txn.updates]
    ELSE [tasks |-> tasks, updates |-> task_updates]

\* A write statement of session s that leaves the tables as (T, U) and the
\* connection as c: the change stays in the connection's transaction.
WriteStmt(s, T, U, c) ==
    IF ImplicitTransactions
    THEN /\ conns' = [conns EXCEPT ![s] =
                         [c EXCEPT !.txn = [open |-> TRUE, tasks |-> T, updates |-> U]]]
         /\ UNCHANGED <<tasks, task_updates>>
    ELSE /\ conns' = [conns EXCEPT ![s] = [c EXCEPT !.txn = NoTxn]]
         /\ tasks' = T
         /\ task_updates' = U

\* The tools call the store with no handler around the calls (task_tools.py 71-81,
\* 113-120): an exception that leaves a store function leaves the tool.
ToolAfterRaise(tool, exc) ==
    IF tool.name = "none" THEN NoTool ELSE [tool EXCEPT !.pc = "done", !.result = exc]

\* An exception leaves the function: the connection is dropped without commit,
\* which rolls its transaction back.
Raise(s, exc) ==
    /\ conns' = [conns EXCEPT ![s] = [IdleConn EXCEPT !.result = [kind |-> exc, count |-> 0],
                                                      !.tool = ToolAfterRaise(conns[s].tool, exc)]]
    /\ UNCHANGED <<tasks, task_updates>>

\* Update ids that uuid.uuid4().hex[:12] draws under SpecConcurrent.
ConcurrentUpdateIds == {"u1", "u2"}

\* add_task_update, lines 97-100: the update id and the time are taken, the
\* connection opened.
add_task_update_begin(s, uid, id) ==
    /\ conns[s].op = "idle" /\ conns[s].tool.pc = "done"
    /\ conns' = [conns EXCEPT ![s] = [IdleConn EXCEPT !.op = "add_task_update",
                                                      !.pc = "insert", !.id = id,
                                                      !.uid = uid, !.t = now]]
    /\ UNCHANGED <<storevars, pubvars>>

\* add_task_update, lines 101-104: INSERT INTO task_updates. With the lock held by
\* another session the statement times out ("database is locked").
add_task_update_insert(s) ==
    LET c == conns[s]
        v == ViewOf(s)
    IN  /\ c.op = "add_task_update" /\ c.pc = "insert"
        /\ IF LockedByOther(s) THEN Raise(s, "OperationalError")
           ELSE IF InsertUpdateFails(v.tasks, v.updates, c.uid, c.id)
           THEN Raise(s, "IntegrityError")
           ELSE WriteStmt(s, v.tasks,
                          DbInsertTaskUpdate(v.updates, c.uid, c.id, "note", c.t),
                          [c EXCEPT !.pc = "update"])
        /\ UNCHANGED <<now, store_last, store_hist, pubvars>>

\* add_task_update, line 105: UPDATE tasks SET updated_at.
add_task_update_update(s) ==
    LET c == conns[s]
        v == ViewOf(s)
    IN  /\ c.op = "add_task_update" /\ c.pc = "update"
        /\ WriteStmt(s, DbTouchTask(v.tasks, c.id, c.t), v.updates,
                     [c EXCEPT !.pc = "commit"])
        /\ UNCHANGED <<now, store_last, store_hist, pubvars>>

\* clear_all_tasks, lines 203-204: the connection is opened.
clear_all_tasks_begin(s) ==
    /\ conns[s].op = "idle" /\ conns[s].tool.pc = "done"
    /\ conns' = [conns EXCEPT ![s] = [IdleConn EXCEPT !.op = "clear_all_tasks",
                                                      !.pc = "delete_updates"]]
    /\ UNCHANGED <<storevars, pubvars>>

\* clear_all_tasks, line 205: DELETE FROM task_updates.
clear_all_tasks_delete_updates(s) ==
    LET c == conns[s]
        v == ViewOf(s)
    IN  /\ c.op = "clear_all_tasks" /\ c.pc = "delete_updates"
        /\ IF LockedByOther(s) THEN Raise(s, "OperationalError")
           ELSE WriteStmt(s, v.tasks, << >>, [c EXCEPT !.pc = "delete_tasks"])
        /\ UNCHANGED <<now, store_last, store_hist, pubvars>>

\* clear_all_tasks, lines 206-207: DELETE FROM tasks; count = cursor.rowcount. The
\* delete fails on a task that an update still references.
clear_all_tasks_delete_tasks(s) ==
    LET c == conns[s]
        v == ViewOf(s)
    IN  /\ c.op = "clear_all_tasks" /\ c.pc = "delete_tasks"
        /\ IF ForeignKeysOn /\ v.updates # << >>
           THEN Raise(s, "IntegrityError")
           ELSE WriteStmt(s, EmptyTable, v.updates,
                          [c EXCEPT !.pc = "commit",
                                    !.count = Cardinality(DOMAIN v.tasks)])
        /\ UNCHANGED <<now, store_last, store_hist, pubvars>>

\* update_task, line 78: `if status and status != existing["status"]`, with the status
\* its get_task read; complete_task always sets the status (line 120).
NeedsStatusWrite(tool) ==
    \/ tool.name = "complete_task"
    \/ Truthy(tool.status) /\ tool.status # tool.existing

\* The position of the session's tool after a store call of it returned: after
\* add_task_update the status write if there is one, else the tool returns.
ToolAfterReturn(c) ==
    IF c.tool.name = "none" THEN NoTool
    ELSE IF c.op = "add_task_update" /\ NeedsStatusWrite(c.tool)
    THEN [c.tool EXCEPT !.pc = "status"]
    ELSE [c.tool EXCEPT !.pc = "done", !.result = "ok"]

\* conn.commit() of a writing function (lines 86, 106, 208 and 229), then the return:
\* the transaction's tables become the committed ones. The commit times out when
\* another connection keeps reading (out = "busy"). A session keeps the task id while
\* its tool goes on, and a link call's arguments with its result.
CommitOutcomes == {"ok", "busy"}
commit(s, out) ==
    LET c == conns[s]
        cleared == c.op = "clear_all_tasks"
        linked == c.op = "link"
        T == IF c.txn.open THEN c.txn.tasks ELSE tasks
    IN  /\ c.op \in {"add_task_update", "clear_all_tasks", "update_task_status", "link"}
        /\ c.pc = "commit"
        /\ IF out = "busy"
           THEN /\ c.txn.open
                /\ Raise(s, "OperationalError")
                /\ UNCHANGED store_hist
           ELSE /\ conns' = [conns EXCEPT ![s] =
                                [IdleConn EXCEPT
                                    !.result =
                                        IF cleared THEN [kind |-> "count", count |-> c.count]
                                        ELSE IF linked THEN [kind |-> "True", count |-> 0]
                                        ELSE [kind |-> "row", count |-> 0],
                                    !.tool = ToolAfterReturn(c),
                                    !.id = IF linked \/ c.tool.name # "none"
                                           THEN c.id ELSE None,
                                    !.column = IF linked THEN c.column ELSE None,
                                    !.arg = IF linked THEN c.arg ELSE None]]
                /\ tasks' = T
                /\ task_updates' = IF c.txn.open THEN c.txn.updates ELSE task_updates
                /\ store_hist' =
                      IF cleared
                      THEN [store_hist EXCEPT !.completed_ever = {}, !.first_linked = {}]
                      ELSE IF linked /\ c.id \in DOMAIN T
                      THEN [store_hist EXCEPT !.first_linked =
                               FirstLinked(@, c.id, c.column, c.arg)]
                      ELSE IF c.op = "update_task_status" /\ c.arg = "completed"
                              /\ c.id \in DOMAIN T
                      THEN [store_hist EXCEPT !.completed_ever = @ \cup {c.id}]
                      ELSE store_hist
        /\ UNCHANGED <<now, store_last, pubvars>>

\* Two sessions whose add_task_update and clear_all_tasks calls run statement by
\* statement, in any interleaving; tasks are created by whole calls made while no
\* transaction is open.
NextConcurrent ==
    \/ \E id \in NewIds :
           /\ \A s \in Sessions : ~conns[s].txn.open
           /\ create_task(id, None, QueryTags)
    \/ Tick
    \/ \E s \in Sessions, uid \in ConcurrentUpdateIds, id \in TaskIds :
           add_task_update_begin(s, uid, id)
    \/ \E s \in Sessions : add_task_update_insert(s)
    \/ \E s \in Sessions : add_task_update_update(s)
    \/ \E s \in Sessions : clear_all_tasks_begin(s)
    \/ \E s \in Sessions : clear_all_tasks_delete_updates(s)
    \/ \E s \in Sessions : clear_all_tasks_delete_tasks(s)
    \/ \E s \in Sessions, out \in CommitOutcomes : commit(s, out)

SpecConcurrent == InitStore /\ [][NextConcurrent]_vars

DefaultListDays == 7
\* get_todays_work_log: `days_back or ctx.context.days_back` (default 1) in the agent
\* tool, the parameter's default 1 in the MCP tool.
DefaultWorkLogDays == 1
Lookback(variant, days_back, default) ==
    IF variant = "agent" /\ days_back = 0 THEN default ELSE days_back

\* What a listing tool returns: the agent tool a text (one of two forms), the MCP
\* tool a dict with the tasks; rows are the tasks the store returned.
ListingReturn(variant, empty_message, rows) ==
    [status |-> IF variant = "mcp" THEN "ok" ELSE None,
     message |-> IF rows = << >> THEN empty_message ELSE "listing",
     tasks |-> rows]

\* log_task(title, tags): create_task, then the task_created event. id is the id
\* create_task draws.
log_task(variant, id, username, tags, tel) ==
    /\ IF id \in DOMAIN tasks
       THEN /\ UNCHANGED <<tasks, store_hist>>
            /\ store_last' = ToolCall("log_task", variant, id,
                                      [username |-> username, tags |-> tags],
                                      ToolRaised("IntegrityError"), <<>>)
       ELSE /\ tasks' = tasks @@ (id :> NewTaskRow(username, "title", tags, now))
            /\ store_hist' = [store_hist EXCEPT !.completed_ever = @ \ {id},
                                                !.returned = @ \cup {id}]
            /\ store_last' = Emit(ToolCall("log_task", variant, id,
                                           [username |-> username, tags |-> tags],
                                           ToolReturn(variant, TRUE, "Logged"),
                                           <<"task_created">>), tel)
    /\ UNCHANGED <<task_updates, now>>
    /\ UNCHANGED <<pubvars, conns>>

\* list_my_tasks(status, days_back) / list_tasks of the MCP server: list_tasks of the
\* store when a status is given, else get_tasks_for_standup; then the
\* work_log_queried event.
list_my_tasks(variant, username, status, days_back, tel) ==
    LET lookback == Lookback(variant, days_back, DefaultListDays)
        results == IF Truthy(status) THEN ListResults(username, status, NoSince)
                   ELSE StandupResults(username, lookback)
    IN  /\ \E rows \in results :
               store_last' = Emit(ToolCall("list_my_tasks", variant, None,
                                           [username |-> username, status |-> status,
                                            days_back |-> days_back, at |-> now],
                                           ListingReturn(variant, "No tasks found", rows),
                                           <<"work_log_queried">>), tel)
        /\ UNCHANGED <<tasks, task_updates, now, store_hist>>
        /\ UNCHANGED <<pubvars, conns>>

\* get_todays_work_log(days_back) / get_work_log of the MCP server:
\* get_tasks_for_standup, then the work_log_queried event.
get_todays_work_log(variant, username, days_back, tel) ==
    LET lookback == Lookback(variant, days_back, DefaultWorkLogDays)
    IN  /\ \E rows \in StandupResults(username, lookback) :
               store_last' = Emit(ToolCall("get_todays_work_log", variant, None,
                                           [username |-> username,
                                            days_back |-> days_back, at |-> now],
                                           ListingReturn(variant, "No tasks logged", rows),
                                           <<"work_log_queried">>), tel)
        /\ UNCHANGED <<tasks, task_updates, now, store_hist>>
        /\ UNCHANGED <<pubvars, conns>>

\* The tools that emit telemetry, each called while the transport works or fails.
NextTelemetry ==
    \/ \E v \in Variants, id \in NewIds, u \in Usernames, tel \in TransportOutcomes :
           log_task(v, id, u, QueryTags, tel)
    \/ \E v \in Variants, id \in TaskIds, n \in NoteArgs, uid \in UpdateIds, d \in 0..1,
          tel \in TransportOutcomes :
           complete_task(v, id, n, uid, d, tel)
    \/ \E v \in Variants, id \in TaskIds, n \in Notes, st \in Statuses \cup {None},
          uid \in UpdateIds, d \in 0..1, tel \in TransportOutcomes :
           update_task(v, id, n, st, uid, d, tel)
    \/ \E v \in Variants, u \in Usernames, st \in QueryStatusArgs, d \in DaysBackArgs,
          tel \in TransportOutcomes :
           list_my_tasks(v, u, st, d, tel)
    \/ \E v \in Variants, u \in Usernames, d \in DaysBackArgs, tel \in TransportOutcomes :
           get_todays_work_log(v, u, d, tel)
    \/ clear_all_tasks
    \/ Tick

SpecTelemetry == InitStore /\ [][NextTelemetry]_vars

\* The step is a call of a tool that reached its capture_event call.
ToolEmitted(op) == Called(op) /\ store_last'.events # << >>

ToolNames == {"update_task", "complete_task"}

\* update_task, lines 71-73, complete_task, lines 113-115: get_task(task_id) and the
\* not-found return; with the task found the tool goes on to its first write.
tool_get_task(s, name, id, note, status) ==
    /\ conns[s].op = "idle" /\ conns[s].tool.pc = "done"
    /\ name = "update_task" => Truthy(note)
    /\ name = "complete_task" => status = None
    /\ conns' = [conns EXCEPT ![s] =
                    IF id \notin DOMAIN tasks
                    THEN [IdleConn EXCEPT !.tool = [NoTool EXCEPT !.name = name,
                                                                 !.result = "not found"]]
                    ELSE [IdleConn EXCEPT
                             !.id = id,
                             !.tool = [name |-> name,
                                       pc |-> IF Truthy(note) THEN "note" ELSE "status",
                                       id |-> id, note |-> note, status |-> status,
                                       existing |-> tasks[id].status,
                                       uid |-> None, result |-> "none"]]]
    /\ UNCHANGED <<storevars, pubvars>>

\* update_task, line 75, complete_task, line 118: the tool calls add_task_update,
\* which takes the update id and the time and opens its connection (97-100).
tool_add_task_update(s, uid) ==
    LET c == conns[s]
    IN  /\ c.op = "idle" /\ c.tool.pc = "note"
        /\ conns' = [conns EXCEPT ![s] =
                        [c EXCEPT !.op = "add_task_update", !.pc = "insert",
                                  !.uid = uid, !.t = now, !.result = NoResult,
                                  !.tool = [@ EXCEPT !.pc = "in add_task_update",
                                                     !.uid = uid]]]
        /\ UNCHANGED <<storevars, pubvars>>

\* update_task, line 79, complete_task, line 120: the tool calls update_task_status,
\* which takes the time and opens its connection (78-79).
tool_update_task_status(s) ==
    LET c == conns[s]
    IN  /\ c.op = "idle" /\ c.tool.pc = "status"
        /\ conns' = [conns EXCEPT ![s] =
                        [c EXCEPT !.op = "update_task_status", !.pc = "update",
                                  !.arg = IF c.tool.name = "complete_task"
                                          THEN "completed" ELSE c.tool.status,
                                  !.t = now, !.result = NoResult,
                                  !.tool = [@ EXCEPT !.pc = "in update_task_status"]]]
        /\ UNCHANGED <<storevars, pubvars>>

\* update_task_status, lines 80-85: UPDATE tasks SET status, updated_at, completed_at.
update_task_status_update(s) ==
    LET c == conns[s]
        v == ViewOf(s)
    IN  /\ c.op = "update_task_status" /\ c.pc = "update"
        /\ IF LockedByOther(s) THEN Raise(s, "OperationalError")
           ELSE WriteStmt(s, DbUpdateTaskStatus(v.tasks, c.id, c.arg, c.t), v.updates,
                          [c EXCEPT !.pc = "commit"])
        /\ UNCHANGED <<now, store_last, store_hist, pubvars>>

\* Notes and statuses the tools are called with under SpecConcurrentTools.
ConcurrentStatusArgs == {None, "completed"}

\* The session that calls the tools and the one that clears the store.
ToolSession == "s1"
ClearSession == "s2"

\* One session calling update_task and complete_task, the other clear_all_tasks,
\* every store call statement by statement, in any interleaving, and a reader
\* calling get_task between any two steps.
NextConcurrentTools ==
    \/ \E id \in NewIds :
           /\ \A s \in Sessions : ~conns[s].txn.open
           /\ create_task(id, None, QueryTags)
    \/ \E name \in ToolNames, id \in NewIds, n \in NoteArgs, st \in ConcurrentStatusArgs :
           tool_get_task(ToolSession, name, id, n, st)
    \/ \E uid \in UpdateIds : tool_add_task_update(ToolSession, uid)
    \/ add_task_update_insert(ToolSession)
    \/ add_task_update_update(ToolSession)
    \/ tool_update_task_status(ToolSession)
    \/ update_task_status_update(ToolSession)
    \/ clear_all_tasks_begin(ClearSession)
    \/ clear_all_tasks_delete_updates(ClearSession)
    \/ clear_all_tasks_delete_tasks(ClearSession)
    \/ \E s \in Sessions, out \in CommitOutcomes : commit(s, out)
    \/ \E id \in NewIds : call_get_task(id)
    \/ Tick

SpecConcurrentTools == InitStore /\ [][NextConcurrentTools]_vars

\* C22: tool-level operations never raise to the agent runtime: in every
\* interleaving of the sessions' store calls, a call of update_task or complete_task
\* ends with a returned result ("ok" or "not found"), never with an exception.
C22_ToolsNeverRaise ==
    \A s \in Sessions : conns[s].tool.result \in {"none", "ok", "not found"}

(***************************************************************************)
(* Frame and timestamp claims about the store                              *)
(***************************************************************************)

\* The step is a call of link_task_to_pr or link_task_to_issue (a repeated call
\* leaves store_last as it was and shows in the table).
LinkCalled ==
    /\ store_last'.op \in Columns
    /\ store_last' # store_last \/ tasks' # tasks

\* C23: linking a reference that is already in the task's list is a no-op: the call
\* returns True and leaves the task record exactly as it was.
C23_RelinkIsNoOp ==
    [][(/\ LinkCalled
        /\ store_last'.id \in DOMAIN tasks
        /\ InList(store_last'.arg, JsonLoads(tasks[store_last'.id][store_last'.op])))
          => /\ store_last'.result = TRUE
             /\ tasks' = tasks]_vars

\* a is a prefix of b.
IsPrefix(a, b) == Len(a) <= Len(b) /\ \A k \in 1..Len(a) : a[k] = b[k]

\* The step is the commit of a clear_all_tasks call.
ClearCommitted ==
    \E s \in Sessions : conns[s].op = "clear_all_tasks" /\ conns'[s].result.kind = "count"

\* The rows of task_updates, and the latest created_at among those of task id.
UpdateRows(U) == {U[i] : i \in 1..Len(U)}
LatestUpdate(U, id) ==
    LET times == {r.created_at : r \in {x \in UpdateRows(U) : x.task_id = id}}
    IN  IF times = {} THEN NullTime ELSE CHOOSE t \in times : \A u \in times : u <= t

C25_TimestampsOrdered ==
    [][\A id \in DOMAIN tasks' :
          LET row == tasks'[id]
          IN  /\ row.created_at <= row.updated_at
              /\ row.completed_at # NullTime =>
                    row.created_at <= row.completed_at /\ row.completed_at <= row.updated_at
              /\ id \in DOMAIN tasks => tasks[id].updated_at <= row.updated_at]_vars

\* The tags the tasks are created with under SpecFrame.
FrameTags == [none |-> FALSE, list |-> <<"backend">>]

\* Two tasks being created, finished, annotated and linked, one call at a time.
NextFrame ==
    \/ \E id \in TaskIds : create_task(id, "alice", FrameTags)
    \/ \E id \in TaskIds : update_task_status(id, "completed")
    \/ \E uid \in UpdateIds, id \in TaskIds, n \in Notes : add_task_update(uid, id, n)
    \/ \E id \in TaskIds, col \in Columns, v \in Refs : add_to_json_list(id, col, v)
    \/ Tick

SpecFrame == InitStore /\ [][NextFrame]_vars

\* The step is a call of op that changed something (a repeated call can leave
\* store_last as it was).
StepOf(op) ==
    /\ store_last'.op = op
    /\ store_last' # store_last \/ tasks' # tasks \/ task_updates' # task_updates

\* Every task other than the one the call names is unchanged, and no task appears
\* or disappears.
OthersUnchanged(id) ==
    /\ DOMAIN tasks' = DOMAIN tasks
    /\ \A o \in DOMAIN tasks : o # id => tasks'[o] = tasks[o]

\* C26: a task's title, owner, created_at and tags (and its id, the key of its row)
\* never change after create_task. update_task_status changes only status,
\* updated_at and completed_at of its task; add_task_update changes only updated_at
\* and adds one update row; a link changes only the targeted list and updated_at;
\* every one of them leaves all other tasks and all existing updates unchanged.
C26_MutationsTouchOnlyTheirFields ==
    [][/\ \A id \in DOMAIN tasks \cap DOMAIN tasks' :
             /\ tasks'[id].title = tasks[id].title
             /\ tasks'[id].github_username = tasks[id].github_username
             /\ tasks'[id].created_at = tasks[id].created_at
             /\ tasks'[id].tags = tasks[id].tags
       /\ StepOf("update_task_status") =>
             LET id == store_last'.id
             IN  /\ OthersUnchanged(id)
                 /\ task_updates' = task_updates
                 /\ id \in DOMAIN tasks =>
                       tasks'[id] = [tasks[id] EXCEPT
                                        !.status = tasks'[id].status,
                                        !.updated_at = tasks'[id].updated_at,
                                        !.completed_at = tasks'[id].completed_at]
       /\ StepOf("add_task_update") =>
             LET id == store_last'.id
             IN  /\ OthersUnchanged(id)
                 /\ id \in DOMAIN tasks =>
                       tasks'[id] = [tasks[id] EXCEPT !.updated_at = tasks'[id].updated_at]
                 /\ IF store_last'.result = "row"
                    THEN /\ Len(task_updates') = Len(task_updates) + 1
                         /\ IsPrefix(task_updates, task_updates')
                         /\ task_updates'[Len(task_updates')].task_id = id
                    ELSE task_updates' = task_updates /\ tasks' = tasks
       /\ \A col \in Columns :
             StepOf(col) =>
                LET id == store_last'.id
                IN  /\ OthersUnchanged(id)
                    /\ task_updates' = task_updates
                    /\ id \in DOMAIN tasks =>
                          tasks'[id] = [tasks[id] EXCEPT
                                           ![col] = tasks'[id][col],
                                           !.updated_at = tasks'[id].updated_at]]_vars

\* Task t1 was just completed while t2, tagged, annotated and linked, is still open.
C26_Witness ==
    /\ store_last.op = "update_task_status" /\ store_last.id = "t1"
    /\ DOMAIN tasks = {"t1", "t2"}
    /\ tasks["t1"].status = "completed" /\ tasks["t1"].updated_at > tasks["t1"].created_at
    /\ tasks["t2"].status = "in_progress"
    /\ row_to_dict(tasks["t2"]).related_prs # << >>
    /\ row_to_dict(tasks["t2"]).tags # << >>
    /\ Len(UpdatesOf("t2")) = 1

(***************************************************************************)
(* Frame of the preview call (checked under SpecPublish)                   *)
(***************************************************************************)

\* The step is a publish_standup_to_slack call that returned the preview.
PreviewStep == last' # last /\ last'.op = "publish" /\ last'.kind = "preview"

\* C27: a preview call of publish_standup_to_slack (not confirmed, every
\* precondition met) changes only slack_standup_to_publish, which becomes the
\* resolved content (standup_text if given, else current_standup), whatever was
\* staged before; it leaves slack_publish_confirmed, slack_channel_id,
\* slack_thread_ts and current_standup unchanged and makes no call of the Slack
\* client.
C27_PreviewChangesOnlyStagedContent ==
    [][PreviewStep =>
          /\ ~last'.confirmed /\ ~slack_publish_confirmed
          /\ slack_standup_to_publish' =
                 (IF Truthy(last'.text) THEN last'.text ELSE current_standup)
          /\ Truthy(slack_standup_to_publish')
          /\ last'.calls = << >>
          /\ last'.posted_text = None
          /\ UNCHANGED <<slack_publish_confirmed, slack_channel_id, slack_thread_ts,
                         current_standup, slack_bot_token, slack_channel>>]_vars

\* A second preview replaced content staged by an earlier one, with the channel
\* id still unresolved.
C27_Witness ==
    /\ last.op = "publish" /\ last.kind = "preview"
    /\ Truthy(last.pre_staged)
    /\ last.pre_staged # slack_standup_to_publish
    /\ Truthy(last.text) /\ Truthy(current_standup) /\ last.text # current_standup
    /\ slack_standup_to_publish = last.text
    /\ ~Truthy(slack_channel_id)

(***************************************************************************)
(* Concurrent sessions linking references, statement by statement          *)
(* (SpecConcurrentLink)                                                    *)
(***************************************************************************)

\* _add_to_json_list, lines 215-220: the connection is opened and the task's list is
\* read with a SELECT, which opens no transaction; for a missing task the call
\* returns False.
link_select(s, id, column, value) ==
    /\ conns[s].op = "idle" /\ conns[s].tool.pc = "done"
    /\ conns' = [conns EXCEPT ![s] =
                    IF id \notin DOMAIN tasks
                    THEN [IdleConn EXCEPT !.result = [kind |-> "False", count |-> 0]]
                    ELSE [IdleConn EXCEPT !.op = "link", !.pc = "update", !.id = id,
                                          !.column = column, !.arg = value,
                                          !.read = JsonLoads(tasks[id][column])]]
    /\ UNCHANGED <<storevars, pubvars>>

\* _add_to_json_list, lines 221-228: the value is appended to the list that was read
\* unless it is in it, the time is taken, and the UPDATE writes that list and
\* updated_at (to no row when the task is gone).
link_update(s) ==
    LET c == conns[s]
        v == ViewOf(s)
        written == JsonDumps(AppendIfAbsent(c.read, c.arg))
    IN  /\ c.op = "link" /\ c.pc = "update"
        /\ IF LockedByOther(s) THEN Raise(s, "OperationalError")
           ELSE WriteStmt(s,
                          IF c.id \in DOMAIN v.tasks
                          THEN [v.tasks EXCEPT ![c.id] =
                                   [@ EXCEPT ![c.column] = written, !.updated_at = now]]
                          ELSE v.tasks,
                          v.updates, [c EXCEPT !.pc = "commit", !.t = now])
        /\ UNCHANGED <<now, store_last, store_hist, pubvars>>

\* References the sessions link under SpecConcurrentLink.
ConcurrentRefs == {"org/repo#1", "org/repo#2"}

\* Two sessions linking references to the tasks, every call statement by
\* statement, in any interleaving.
NextConcurrentLink ==
    \/ \E id \in NewIds :
           /\ \A s \in Sessions : ~conns[s].txn.open
           /\ create_task(id, None, QueryTags)
    \/ \E s \in Sessions, id \in TaskIds, col \in Columns, v \in ConcurrentRefs :
           link_select(s, id, col, v)
    \/ \E s \in Sessions : link_update(s)
    \/ \E s \in Sessions, out \in CommitOutcomes : commit(s, out)

SpecConcurrentLink == InitStore /\ [][NextConcurrentLink]_vars

\* The last call of session s was a link of a reference to column col of task id
\* that returned True.
LinkReturnedTrue(s, id, col) ==
    /\ conns[s].op = "idle" /\ conns[s].result.kind = "True"
    /\ conns[s].id = id /\ conns[s].column = col

\* C28: linking is atomic under concurrency: when two sessions link different
\* references to the same list of the same task and both calls return True, the list
\* holds both references.
C28_NoLostLink ==
    \A id \in DOMAIN tasks, col \in Columns :
        (/\ LinkReturnedTrue("s1", id, col) /\ LinkReturnedTrue("s2", id, col)
         /\ conns["s1"].arg # conns["s2"].arg)
            => /\ InList(conns["s1"].arg, JsonLoads(tasks[id][col]))
               /\ InList(conns["s2"].arg, JsonLoads(tasks[id][col]))

(***************************************************************************)
(* Owner scoping of get_tasks_for_standup (SpecOwner)                      *)
(***************************************************************************)

\* Owners of tasks and usernames asked for under SpecOwner.
Owners == {None, "alice", "bob"}
OwnerArgs == {None, "", "alice"}

\* Tasks of several owners (and of none) being created and finished, and the
\* standup query called for one owner, for None and for the empty username.
NextOwner ==
    \/ \E id \in TaskIds, u \in Owners : create_task(id, u, QueryTags)
    \/ \E id \in TaskIds : update_task_status(id, "completed")
    \/ Tick
    \/ \E u \in OwnerArgs, d \in DaysBackArgs : get_tasks_for_standup(u, d)

SpecOwner == InitStore /\ [][NextOwner]_vars

\* C29: get_tasks_for_standup(username, days_back) scopes both branches of its
\* window condition by owner. With a username it returns exactly the tasks of that
\* owner that are in_progress or were updated in the window, and no task of another
\* owner or of no owner; with username None or empty it returns the matching tasks
\* of all owners. The result is ordered by updated_at descending.
C29_StandupScopedByOwner ==
    [][Called("get_tasks_for_standup") =>
          LET a == store_last'.arg
              r == store_last'.result
              returned == {r[k].id : k \in 1..Len(r)}
              since == a.at - a.days_back * TicksPerDay
              matches(id) == tasks[id].status = "in_progress"
                                \/ tasks[id].updated_at >= since
              given == a.username # None /\ a.username # ""
          IN  /\ given =>
                    returned = {id \in DOMAIN tasks :
                                   matches(id) /\ tasks[id].github_username = a.username}
              /\ ~given => returned = {id \in DOMAIN tasks : matches(id)}
              /\ Len(r) = Cardinality(returned)
              /\ \A i, j \in 1..Len(r) :
                    i < j => r[i].updated_at >= r[j].updated_at]_vars

\* alice's standup left out bob's task, which is in progress and was just created.
C29_Witness ==
    /\ store_last.op = "get_tasks_for_standup"
    /\ store_last.arg.username = "alice" /\ store_last.arg.at = now
    /\ DOMAIN tasks = {"t1", "t2"}
    /\ tasks["t1"].github_username = "alice"
    /\ tasks["t2"].github_username = "bob" /\ tasks["t2"].status = "in_progress"
    /\ tasks["t2"].updated_at = now
    /\ Len(store_last.result) = 1 /\ store_last.result[1].id = "t1"

\* The status the session's tool is to write, and whether the tool writes a note
\* and a new status as one logical operation.
TargetStatus(tool) == IF tool.name = "complete_task" THEN "completed" ELSE tool.status
WritesNoteAndStatus(tool) ==
    /\ tool.name \in ToolNames /\ tool.result # "not found"
    /\ Truthy(tool.note) /\ NeedsStatusWrite(tool)
    /\ tool.existing # TargetStatus(tool)

\* The note of the session's tool is in the committed table.
NoteStored(tool) ==
    \E i \in 1..Len(task_updates) :
        task_updates[i].id = tool.uid /\ task_updates[i].task_id = tool.id

\* C30: update_task with a status change and complete_task with a note are atomic
\* for concurrent sessions: in no state that another session can read is the
\* operation's note stored while the task still has its old status, during the
\* call and after it (both writes are applied or neither).
C30_NoteAndStatusAtomic ==
    \A s \in Sessions :
        LET tool == conns[s].tool
        IN  (/\ WritesNoteAndStatus(tool)
             /\ tool.id \in DOMAIN tasks
             /\ NoteStored(tool))
                => tasks[tool.id].status = TargetStatus(tool)

====
